---- MODULE Spec2Model ----
(***************************************************************************)
(* Model of the compound-interest core: the accumulation engine            *)
(* (core/investment_calculator.py) and the decumulation engine             *)
(* (core/withdrawal_simulation.py).                                        *)
(*                                                                         *)
(* Numbers.  The code computes in double precision; the model computes     *)
(* exactly.  A money amount x is held as the whole number x * Scale, so    *)
(* amounts are multiples of 1/Scale of a currency unit.  Monthly rates are *)
(* whole numbers (0 = 0%, 1 = 100% per month): the annual rates offered to *)
(* the constructors are the ones whose monthly rate is whole, which keeps  *)
(* every balance of the recurrence an exact multiple of 1/Scale.           *)
(* An optional argument is <<>> (None) or <<v>>.                           *)
(***************************************************************************)
EXTENDS Integers, Sequences, FiniteSets, TLC

VARIABLES calc, solved, last, sim, wd, first

vars == <<calc, solved, last, sim, wd, first>>

----------------------------------------------------------------------------
(* Bounds of the model *)

Scale == 2
MaxFactor == 2
MaxHorizon == 3
MaxInvestment == 1
MaxInitBalance == 3
MaxIncrement == 1
MaxIncrePeriod == 1
MaxTarget == 2
MaxBigTarget == 1
MaxYears == 4
MaxGrowth == 16777216
MaxWAmount == 4
MaxWYears == 2
MaxLoopMonths == 8

None == <<>>

NoEngine == [none |-> TRUE]

NoSolve == [target |-> "none"]

----------------------------------------------------------------------------
(* Arithmetic *)

RECURSIVE Pow(_, _)
Pow(b, n) == IF n = 0 THEN 1 ELSE b * Pow(b, n - 1)

(* b^n, not multiplied further once it has passed cap *)
RECURSIVE CappedPow(_, _, _)
CappedPow(b, n, cap) ==
    IF n = 0 THEN 1
    ELSE LET p == CappedPow(b, n - 1, cap) IN IF p > cap THEN p ELSE p * b

(* math.floor in the place of math.ceil *)
CeilAsFloor(a, b) == a \div b

(* math.ceil(a / b) for b > 0 *)
Ceil(a, b) == -((-a) \div b)

(* round() and numpy.round(): a scaled amount to the nearest whole unit,   *)
(* a tie going to the even neighbour                                       *)
Round(n) ==
    LET q == n \div Scale
        rem == n % Scale
    IN  IF 2 * rem < Scale THEN q
        ELSE IF 2 * rem > Scale THEN q + 1
        ELSE IF q % 2 = 0 THEN q ELSE q + 1

(* pow(x, 1/12) for the twelfth powers the model offers *)
Root12(x) == CHOOSE g \in 0..MaxFactor : Pow(g, 12) = x

----------------------------------------------------------------------------
(* InvestmentCalculator *)

(* the horizon check written as horizon < 0 *)
ValidateInputsZeroHorizon(params) ==
    IF params.y_return < 0 THEN "Yearly return rate cannot be less than 0"
    ELSE IF params.horizon < 0 THEN "Investment horizon must be positive"
    ELSE IF params.m_investment < 0 THEN "Monthly investment cannot be negative"
    ELSE IF params.init_balance < 0 THEN "Initial balance cannot be negative"
    ELSE IF params.method \notin {"geometric", "arithmetic"}
         THEN "Method must be either 'geometric' or 'arithmetic'"
    ELSE IF ~params.increment.isnum THEN "Increment amount must be a number"
    ELSE IF params.incre_period < 0 THEN "Increment period cannot be negative"
    ELSE ""

ValidateInputs(params) ==
    IF params.y_return < 0 THEN "Yearly return rate cannot be less than 0"
    ELSE IF params.horizon <= 0 THEN "Investment horizon must be positive"
    ELSE IF params.m_investment < 0 THEN "Monthly investment cannot be negative"
    ELSE IF params.init_balance < 0 THEN "Initial balance cannot be negative"
    ELSE IF params.method \notin {"geometric", "arithmetic"}
         THEN "Method must be either 'geometric' or 'arithmetic'"
    ELSE IF ~params.increment.isnum THEN "Increment amount must be a number"
    ELSE IF params.incre_period < 0 THEN "Increment period cannot be negative"
    ELSE ""

(* the geometric rate without its "- 1" *)
CalculateMonthlyReturnFactor(method, y_return) ==
    IF method = "geometric" THEN Root12(1 + y_return)
    ELSE y_return \div 12

CalculateMonthlyReturn(method, y_return) ==
    IF method = "geometric" THEN Root12(1 + y_return) - 1
    ELSE y_return \div 12

NewCalculator(params) ==
    [y_return |-> params.y_return,
     horizon |-> params.horizon,
     m_investment |-> params.m_investment,
     init_balance |-> params.init_balance,
     method |-> params.method,
     increment |-> params.increment.v,
     increment_period |-> params.incre_period,
     monthly_return |-> CalculateMonthlyReturn(params.method, params.y_return)]

(* the month loop with the return taken against the previous principal *)
RECURSIVE MonthLoopStalePrincipal(_, _, _, _, _)
MonthLoopStalePrincipal(self, i, month_num, excepted_return, st) ==
    IF i >= month_num THEN st
    ELSE
      LET year_num == i \div 12
          current_monthly_investment ==
              IF i % 12 = 0 /\ self.increment # 0
                 /\ year_num <= self.increment_period /\ year_num # 0
              THEN st.current_monthly_investment + self.increment
              ELSE st.current_monthly_investment
          balance == st.balances[i + 1] * (1 + excepted_return)
                     + current_monthly_investment
          principal == st.principals[i + 1] + current_monthly_investment
      IN  MonthLoopStalePrincipal(self, i + 1, month_num, excepted_return,
                    [current_monthly_investment |-> current_monthly_investment,
                     balances |-> Append(st.balances, balance),
                     principals |-> Append(st.principals, principal),
                     returns |-> Append(st.returns, balance - st.principals[i + 1]),
                     investment_amount |->
                         Append(st.investment_amount, current_monthly_investment)])

(* the month loop adding the increment every year, past increment_period *)
RECURSIVE MonthLoopNoPeriodLimit(_, _, _, _, _)
MonthLoopNoPeriodLimit(self, i, month_num, excepted_return, st) ==
    IF i >= month_num THEN st
    ELSE
      LET year_num == i \div 12
          current_monthly_investment ==
              IF i % 12 = 0 /\ self.increment # 0 /\ year_num # 0
              THEN st.current_monthly_investment + self.increment
              ELSE st.current_monthly_investment
          balance == st.balances[i + 1] * (1 + excepted_return)
                     + current_monthly_investment
          principal == st.principals[i + 1] + current_monthly_investment
      IN  MonthLoopNoPeriodLimit(self, i + 1, month_num, excepted_return,
                    [current_monthly_investment |-> current_monthly_investment,
                     balances |-> Append(st.balances, balance),
                     principals |-> Append(st.principals, principal),
                     returns |-> Append(st.returns, balance - principal),
                     investment_amount |->
                         Append(st.investment_amount, current_monthly_investment)])

(* The month loop of automatic_investment from month i on.  st holds the   *)
(* running contribution and the four arrays filled so far (entry k of the  *)
(* code's arrays is element k + 1 here).                                   *)
RECURSIVE MonthLoop(_, _, _, _, _)
MonthLoop(self, i, month_num, excepted_return, st) ==
    IF i >= month_num THEN st
    ELSE
      LET year_num == i \div 12
          current_monthly_investment ==
              IF i % 12 = 0 /\ self.increment # 0
                 /\ year_num <= self.increment_period /\ year_num # 0
              THEN st.current_monthly_investment + self.increment
              ELSE st.current_monthly_investment
          balance == st.balances[i + 1] * (1 + excepted_return)
                     + current_monthly_investment
          principal == st.principals[i + 1] + current_monthly_investment
      IN  MonthLoop(self, i + 1, month_num, excepted_return,
                    [current_monthly_investment |-> current_monthly_investment,
                     balances |-> Append(st.balances, balance),
                     principals |-> Append(st.principals, principal),
                     returns |-> Append(st.returns, balance - principal),
                     investment_amount |->
                         Append(st.investment_amount, current_monthly_investment)])

RoundAll(a) == [k \in 1..Len(a) |-> Round(a[k])]

AutomaticInvestment(self, horizon, m_investment, monthly_rate) ==
    LET month_num == IF horizon = None THEN self.horizon * 12 ELSE horizon[1] * 12
        cmi0 == IF m_investment = None THEN self.m_investment ELSE m_investment[1]
        excepted_return ==
            IF monthly_rate = None THEN self.monthly_return ELSE monthly_rate[1]
        st == MonthLoop(self, 0, month_num, excepted_return,
                        [current_monthly_investment |-> cmi0,
                         balances |-> <<self.init_balance>>,
                         principals |-> <<self.init_balance>>,
                         returns |-> <<0>>,
                         investment_amount |-> <<self.init_balance>>])
    IN  [final_balance |-> Round(st.balances[month_num + 1]),
         total_principal |-> Round(st.principals[month_num + 1]),
         total_return |-> Round(st.returns[month_num + 1]),
         monthly_data |-> [Principal |-> RoundAll(st.principals),
                           Return |-> RoundAll(st.returns),
                           Balance |-> RoundAll(st.balances),
                           Investment |-> RoundAll(st.investment_amount)]]

(* The result of a call: what it raised ("" when it returned) and the      *)
(* value it returned.                                                      *)
Returned(v) == [raised |-> "", value |-> <<v>>]

Raised(e) == [raised |-> e, value |-> <<>>]

(* the years rounded down: the greatest whole k with b^(12 k) <= num / den *)
RECURSIVE YearsByLogFloor(_, _, _, _)
YearsByLogFloor(num, den, b, k) ==
    IF Pow(b, 12 * (k + 1)) * den > num THEN k
    ELSE YearsByLogFloor(num, den, b, k + 1)

(* math.ceil(max(0, months / 12)) for months = log(num / den) / log(b):    *)
(* the least whole k >= 0 with b^(12 k) >= num / den  (b > 1, den > 0)     *)
RECURSIVE YearsByLog(_, _, _, _)
YearsByLog(num, den, b, k) ==
    IF Pow(b, 12 * k) * den >= num THEN k ELSE YearsByLog(num, den, b, k + 1)

(* the target check written as value_target < 0 *)
TargetRejectedBelowZero(value_target) == value_target < 0

TargetRejected(value_target) == value_target <= 0

BackToPresent(self, target, value_target, initial) ==
    IF TargetRejected(value_target) THEN Raised("ValueError")
    ELSE
      LET month_num == self.horizon * 12
          initial_balance == IF initial = None THEN self.init_balance ELSE initial[1]
          r == self.monthly_return
      IN
      CASE target = "amount" ->
             IF value_target <= initial_balance THEN Returned(0)
             ELSE IF r = 0
             THEN Returned(Ceil(value_target - initial_balance, month_num * Scale))
             ELSE LET numerator == value_target - initial_balance * Pow(1 + r, month_num)
                      denominator == (Pow(1 + r, month_num) - 1) \div r
                  IN  Returned(Ceil(numerator, denominator * Scale))
        [] target = "rate" ->
             IF value_target <= initial_balance + self.m_investment * month_num
             THEN Returned(0)
             \* the first pass of the bisection loop reads target_value, a name
             \* bound nowhere in the imported module
             ELSE Raised("NameError")
        [] target = "horizon" ->
             IF value_target <= initial_balance THEN Returned(0)
             ELSE IF r = 0
             THEN IF self.m_investment = 0 THEN Raised("ZeroDivisionError")
                  ELSE LET a == Ceil(value_target - initial_balance,
                                     12 * self.m_investment)
                       IN  Returned(IF a > 0 THEN a ELSE 0)
             ELSE \* numerator / denominator, both multiplied by r
                  LET numerator == value_target * r + self.m_investment
                      denominator == initial_balance * r + self.m_investment
                  IN  IF denominator = 0 THEN Raised("ZeroDivisionError")
                      ELSE Returned(YearsByLog(numerator, denominator, 1 + r, 0))

----------------------------------------------------------------------------
(* Inputs offered to the calculator *)

Methods == {"geometric", "arithmetic", "harmonic"}

MonthlyRates == 0..(MaxFactor - 1)

(* the annual rates whose monthly rate under the method is whole, and a    *)
(* negative one                                                            *)
AnnualReturns(method) ==
    {-1} \cup (IF method = "arithmetic"
               THEN {12 * r : r \in MonthlyRates}
               ELSE {Pow(1 + r, 12) - 1 : r \in MonthlyRates})

Increments ==
    [isnum : {TRUE}, v : (-MaxIncrement)..MaxIncrement] \cup {[isnum |-> FALSE, v |-> 0]}

Params ==
    UNION {[y_return : AnnualReturns(m),
            horizon : 0..MaxHorizon,
            m_investment : (-1)..MaxInvestment,
            init_balance : (-1)..MaxInitBalance,
            method : {m},
            increment : Increments,
            incre_period : (-1)..MaxIncrePeriod] : m \in Methods}

(* compounding over `years` at monthly rate r stays within the model's range *)
InRange(r, years) ==
    /\ years <= MaxYears
    /\ CappedPow(1 + r, 12 * years, MaxGrowth) <= MaxGrowth

(* Targets: small ones, one beyond a year of contributions, and large ones *)
(* that a one-year horizon reaches only by compounding.                    *)
TargetValues ==
    ((-1)..MaxTarget) \cup {7 * MaxTarget} \cup {Pow(2, 12) * t : t \in 1..MaxBigTarget}

Targets == {"amount", "rate", "horizon"}

NoCall == [op |-> "none"]

NoSim == [none |-> TRUE]

NoFirst == [set |-> FALSE]

Idle == [op |-> "none", pc |-> "idle"]

----------------------------------------------------------------------------
(* Calls on the calculator *)

(* A session builds one engine, as its first call.  The two engines share  *)
(* nothing, so a session works with one of them: Spec follows the calls on *)
(* a calculator, WSpec the calls on a withdrawal simulation.               *)
Construct(params) ==
    /\ calc = NoEngine /\ sim = NoSim /\ last = NoCall
    /\ LET msg == ValidateInputs(params) IN
         IF msg # ""
         THEN /\ calc' = calc
              /\ last' = [op |-> "__init__", params |-> params,
                          raised |-> "ValueError", message |-> msg]
         ELSE /\ InRange(CalculateMonthlyReturn(params.method, params.y_return),
                         params.horizon)
              /\ calc' = NewCalculator(params)
              /\ last' = [op |-> "__init__", params |-> params,
                          raised |-> "", message |-> ""]
    /\ UNCHANGED <<solved, sim, wd, first>>

(* The overrides a caller passes: none, the value just solved for in the   *)
(* place of the parameter it stands for, or one value of its own.          *)
Overrides ==
    {[horizon |-> None, m_investment |-> None, monthly_rate |-> None]}
    \cup (IF solved.target = "horizon"
          THEN {[horizon |-> <<solved.value>>, m_investment |-> None,
                 monthly_rate |-> None]}
          ELSE {})
    \cup (IF solved.target = "amount"
          THEN {[horizon |-> None, m_investment |-> <<solved.value * Scale>>,
                 monthly_rate |-> None]}
          ELSE {})
    \cup (IF solved.target = "none"
          THEN {[horizon |-> <<1>>, m_investment |-> None, monthly_rate |-> None],
                [horizon |-> None, m_investment |-> <<1>>, monthly_rate |-> None]}
               \cup {[horizon |-> None, m_investment |-> None,
                      monthly_rate |-> <<r>>] : r \in MonthlyRates}
          ELSE {})

(* first holds the scalars of the first automatic_investment() made        *)
(* without overrides, and whether a call with overrides or a               *)
(* back_to_present call has been made since                                *)
FirstAfter(o, res) ==
    LET plain == o.horizon = None /\ o.m_investment = None
                 /\ o.monthly_rate = None
    IN  IF first.set
        THEN IF plain THEN first ELSE [first EXCEPT !.later = TRUE]
        ELSE IF plain
        THEN [set |-> TRUE, later |-> FALSE,
              final_balance |-> res.final_balance,
              total_principal |-> res.total_principal,
              total_return |-> res.total_return]
        ELSE first

(* automatic_investment writing the values it ran with into the engine *)
CallAutomaticInvestmentKeepingOverrides(o) ==
    /\ calc # NoEngine
    /\ InRange(IF o.monthly_rate = None THEN calc.monthly_return
               ELSE o.monthly_rate[1],
               IF o.horizon = None THEN calc.horizon ELSE o.horizon[1])
    /\ LET res == AutomaticInvestment(calc, o.horizon, o.m_investment,
                                      o.monthly_rate)
       IN  /\ last' = [op |-> "automatic_investment", horizon |-> o.horizon,
                       m_investment |-> o.m_investment,
                       monthly_rate |-> o.monthly_rate,
                       raised |-> "", result |-> res]
           /\ first' = FirstAfter(o, res)
    /\ solved' = IF o.horizon = None /\ o.m_investment = None THEN NoSolve
                 ELSE solved
    /\ calc' = [calc EXCEPT
                  !.horizon = IF o.horizon = None THEN @ ELSE o.horizon[1],
                  !.m_investment = IF o.m_investment = None THEN @
                                   ELSE o.m_investment[1],
                  !.monthly_return = IF o.monthly_rate = None THEN @
                                     ELSE o.monthly_rate[1]]
    /\ UNCHANGED <<sim, wd>>

(* solved is the value the latest back_to_present returned; the caller     *)
(* holds it until a call that does not use it.                             *)
CallAutomaticInvestment(o) ==
    /\ calc # NoEngine
    /\ InRange(IF o.monthly_rate = None THEN calc.monthly_return
               ELSE o.monthly_rate[1],
               IF o.horizon = None THEN calc.horizon ELSE o.horizon[1])
    /\ LET res == AutomaticInvestment(calc, o.horizon, o.m_investment,
                                      o.monthly_rate)
       IN  /\ last' = [op |-> "automatic_investment", horizon |-> o.horizon,
                       m_investment |-> o.m_investment,
                       monthly_rate |-> o.monthly_rate,
                       raised |-> "", result |-> res]
           /\ first' = FirstAfter(o, res)
    /\ solved' = IF o.horizon = None /\ o.m_investment = None THEN NoSolve
                 ELSE solved
    /\ UNCHANGED <<calc, sim, wd>>

CallBackToPresent(target, value_target, initial) ==
    /\ calc # NoEngine
    /\ LET out == BackToPresent(calc, target, value_target, initial) IN
         /\ last' = [op |-> "back_to_present", target |-> target,
                     value_target |-> value_target, initial |-> initial,
                     raised |-> out.raised, value |-> out.value]
         /\ solved' = IF out.raised = ""
                      THEN [target |-> target, value_target |-> value_target,
                            initial |-> initial, value |-> out.value[1]]
                      ELSE NoSolve
    /\ first' = IF first.set THEN [first EXCEPT !.later = TRUE] ELSE first
    /\ UNCHANGED <<calc, sim, wd>>

----------------------------------------------------------------------------
(* WithdrawalSimulation.  Within one call every amount is a whole number   *)
(* of 1/den currency units; den is Scale for the amounts a caller passes   *)
(* and carries the divisor of the closed-form quotient for solved amounts. *)

NewSimulation(annual_return) ==
    [annual_return |-> annual_return,
     monthly_return_rate |-> Root12(1 + annual_return) - 1]

(* The generated __init__ of the dataclass: its five fields have no        *)
(* defaults, so a call that leaves one out raises TypeError.               *)
WithdrawalResult(kw) ==
    IF {"years", "monthly_withdrawal", "initial_balance", "monthly_balances",
        "no_invest"} \subseteq DOMAIN kw
    THEN [raised |-> "", result |-> <<kw>>]
    ELSE [raised |-> "TypeError", result |-> None]

(* no_invest of simulate_years: initial / withdrawal as (years, months) *)
NoInvestYears(initial_balance, monthly_withdrawal) ==
    LET no_invest == initial_balance \div monthly_withdrawal
    IN  <<no_invest \div 12, no_invest % 12>>

(* for _ in range(months): the withdrawals still to make are `left`; with  *)
(* stop_short the loop breaks once the balance is below the withdrawal     *)
RECURSIVE WithdrawLoop(_, _, _, _, _, _)
WithdrawLoop(left, balance, monthly_withdrawal, rate, stop_short, monthly_balances) ==
    IF left = 0 \/ (stop_short /\ balance - monthly_withdrawal < 0)
    THEN monthly_balances
    ELSE LET b == balance * (1 + rate) - monthly_withdrawal
         IN  WithdrawLoop(left - 1, b, monthly_withdrawal, rate, stop_short,
                          Append(monthly_balances, b))

SimulateMonthlyWithdrawal(self, initial_balance, years) ==
    IF initial_balance <= 0 \/ years <= 0
    THEN [raised |-> "ValueError", result |-> None, den |-> Scale]
    ELSE
      LET months == years * 12
          rate == self.monthly_return_rate
      IN  IF rate = 0
          THEN \* monthly_withdrawal = balance / months, in units of 1/(Scale*months)
               LET den == Scale * months
                   monthly_withdrawal == initial_balance
                   trace == WithdrawLoop(months, initial_balance * months,
                                         monthly_withdrawal, 0, FALSE, <<>>)
               IN  WithdrawalResult([years |-> years,
                                     monthly_withdrawal |-> monthly_withdrawal,
                                     initial_balance |-> initial_balance * months,
                                     monthly_balances |-> trace])
                   @@ [den |-> den]
          ELSE \* balance * rate / (1 - (1 + rate)^(-months)), in units of
               \* 1/(Scale * ((1 + rate)^months - 1))
               LET growth == Pow(1 + rate, months)
                   den == Scale * (growth - 1)
                   monthly_withdrawal == initial_balance * rate * growth
                   balance == initial_balance * (growth - 1)
                   trace == WithdrawLoop(months, balance, monthly_withdrawal, rate,
                                         TRUE, <<>>)
               IN  WithdrawalResult([years |-> years,
                                     monthly_withdrawal |-> monthly_withdrawal,
                                     initial_balance |-> balance,
                                     monthly_balances |-> trace,
                                     no_invest |-> <<initial_balance, Scale * months>>])
                   @@ [den |-> den]

SimulateInitialBalance(self, monthly_withdrawal, years) ==
    IF monthly_withdrawal <= 0 \/ years <= 0
    THEN [raised |-> "ValueError", result |-> None, den |-> Scale]
    ELSE
      LET months == years * 12
          rate == self.monthly_return_rate
      IN  IF rate = 0
          THEN \* the trace starts from balance = 0, not from initial_balance
               LET trace == WithdrawLoop(months, 0, monthly_withdrawal, 0, FALSE, <<>>)
               IN  WithdrawalResult([years |-> years,
                                     monthly_withdrawal |-> monthly_withdrawal,
                                     initial_balance |-> monthly_withdrawal * months,
                                     monthly_balances |-> trace])
                   @@ [den |-> Scale]
          ELSE \* withdrawal * (1 - (1 + rate)^(-months)) / rate, in units of
               \* 1/(Scale * (1 + rate)^months * rate)
               LET growth == Pow(1 + rate, months)
                   den == Scale * growth * rate
                   initial_balance == monthly_withdrawal * (growth - 1)
                   w == monthly_withdrawal * growth * rate
                   trace == WithdrawLoop(months, initial_balance, w, rate, FALSE, <<>>)
               IN  WithdrawalResult([years |-> years,
                                     monthly_withdrawal |-> w,
                                     initial_balance |-> initial_balance,
                                     monthly_balances |-> trace,
                                     no_invest |-> months * w])
                   @@ [den |-> den]

----------------------------------------------------------------------------
(* Calls on the simulation.  wd is the call in progress or just finished:  *)
(* pc is "idle", "loop" (inside the month loop of simulate_years),         *)
(* "returned" or "raised".                                                 *)

WAmounts == (-1)..MaxWAmount

WYears == 0..MaxWYears

Finished == wd.pc \in {"idle", "returned", "raised"}

ConstructSim(annual_return) ==
    /\ sim = NoSim /\ calc = NoEngine
    /\ sim' = NewSimulation(annual_return)
    /\ UNCHANGED <<calc, solved, last, wd, first>>

(* simulate_years entering its loop without the check of its inputs *)
EnterSimulateYearsUnchecked(initial_balance, monthly_withdrawal, den, from_years) ==
    wd' = [op |-> "simulate_years", pc |-> "loop", raised |-> "",
           den |-> den, initial_balance |-> initial_balance,
           monthly_withdrawal |-> monthly_withdrawal, from_years |-> from_years,
           balance |-> initial_balance, months |-> 0, monthly_balances |-> <<>>,
           result |-> None]

(* simulate_years up to its loop; from_years is the duration a withdrawal  *)
(* passed in was solved for (None for a caller's own amount)               *)
EnterSimulateYears(initial_balance, monthly_withdrawal, den, from_years) ==
    wd' = IF initial_balance <= 0 \/ monthly_withdrawal <= 0
          THEN [op |-> "simulate_years", pc |-> "raised", raised |-> "ValueError",
                den |-> den, initial_balance |-> initial_balance,
                monthly_withdrawal |-> monthly_withdrawal, from_years |-> from_years,
                balance |-> 0, months |-> 0, monthly_balances |-> <<>>,
                result |-> None]
          ELSE [op |-> "simulate_years", pc |-> "loop", raised |-> "",
                den |-> den, initial_balance |-> initial_balance,
                monthly_withdrawal |-> monthly_withdrawal, from_years |-> from_years,
                balance |-> initial_balance, months |-> 0, monthly_balances |-> <<>>,
                result |-> None]

CallSimulateYears(initial_balance, monthly_withdrawal) ==
    /\ sim # NoSim /\ Finished
    /\ EnterSimulateYears(initial_balance, monthly_withdrawal, Scale, None)
    /\ UNCHANGED <<calc, solved, last, sim, first>>

(* simulate_years with the balance and the withdrawal that                 *)
(* simulate_monthly_withdrawal has just returned                           *)
CallSimulateYearsWithSolved ==
    /\ sim # NoSim
    /\ wd.op = "simulate_monthly_withdrawal" /\ wd.pc = "returned"
    /\ EnterSimulateYears(wd.result[1].initial_balance,
                          wd.result[1].monthly_withdrawal, wd.den,
                          <<wd.result[1].years>>)
    /\ UNCHANGED <<calc, solved, last, sim, first>>

(* one pass of: while balance - monthly_withdrawal > 0 *)
SimulateYearsStep ==
    /\ wd.op = "simulate_years" /\ wd.pc = "loop"
    /\ wd.balance - wd.monthly_withdrawal > 0
    /\ wd.months < MaxLoopMonths
    /\ LET balance == wd.balance * (1 + sim.monthly_return_rate)
                      - wd.monthly_withdrawal
       IN  wd' = [wd EXCEPT !.balance = balance,
                            !.monthly_balances = Append(@, balance),
                            !.months = @ + 1]
    /\ UNCHANGED <<calc, solved, last, sim, first>>

SimulateYearsReturn ==
    /\ wd.op = "simulate_years" /\ wd.pc = "loop"
    /\ ~(wd.balance - wd.monthly_withdrawal > 0)
    /\ LET out == WithdrawalResult(
                      [years |-> <<wd.months \div 12, wd.months % 12>>,
                       monthly_withdrawal |-> wd.monthly_withdrawal,
                       initial_balance |-> wd.initial_balance,
                       monthly_balances |-> wd.monthly_balances,
                       no_invest |-> NoInvestYears(wd.initial_balance,
                                                   wd.monthly_withdrawal)])
       IN  wd' = [wd EXCEPT !.pc = IF out.raised = "" THEN "returned" ELSE "raised",
                            !.raised = out.raised,
                            !.result = out.result]
    /\ UNCHANGED <<calc, solved, last, sim, first>>

CallSimulateMonthlyWithdrawal(initial_balance, years) ==
    /\ sim # NoSim /\ Finished
    /\ InRange(sim.monthly_return_rate, years)
    /\ LET out == SimulateMonthlyWithdrawal(sim, initial_balance, years)
       IN  wd' = [op |-> "simulate_monthly_withdrawal",
                  pc |-> IF out.raised = "" THEN "returned" ELSE "raised",
                  raised |-> out.raised, den |-> out.den,
                  initial_balance |-> initial_balance, years |-> years,
                  result |-> out.result]
    /\ UNCHANGED <<calc, solved, last, sim, first>>

CallSimulateInitialBalance(monthly_withdrawal, years) ==
    /\ sim # NoSim /\ Finished
    /\ InRange(sim.monthly_return_rate, years)
    /\ LET out == SimulateInitialBalance(sim, monthly_withdrawal, years)
       IN  wd' = [op |-> "simulate_initial_balance",
                  pc |-> IF out.raised = "" THEN "returned" ELSE "raised",
                  raised |-> out.raised, den |-> out.den,
                  monthly_withdrawal |-> monthly_withdrawal, years |-> years,
                  result |-> out.result]
    /\ UNCHANGED <<calc, solved, last, sim, first>>

----------------------------------------------------------------------------

Init ==
    /\ calc = NoEngine
    /\ solved = NoSolve
    /\ last = NoCall
    /\ sim = NoSim
    /\ wd = Idle
    /\ first = NoFirst

Next ==
    \/ last = NoCall /\ \E params \in Params : Construct(params)
    \/ calc # NoEngine /\ \E o \in Overrides : CallAutomaticInvestment(o)
    \/ calc # NoEngine /\ \E t \in Targets, v \in TargetValues, i \in {None, <<MaxInitBalance>>} :
          CallBackToPresent(t, v, i)

Spec == Init /\ [][Next]_vars

WNext ==
    \/ sim = NoSim /\ \E r \in MonthlyRates : ConstructSim(Pow(1 + r, 12) - 1)
    \/ \E b \in WAmounts, w \in WAmounts : CallSimulateYears(b, w)
    \/ CallSimulateYearsWithSolved
    \/ SimulateYearsStep
    \/ SimulateYearsReturn
    \/ \E b \in WAmounts, y \in WYears : CallSimulateMonthlyWithdrawal(b, y)
    \/ \E w \in WAmounts, y \in WYears : CallSimulateInitialBalance(w, y)

WSpec == Init /\ [][WNext]_vars

----------------------------------------------------------------------------
(* Properties of the calculator (checked under Spec) *)

Abs(x) == IF x < 0 THEN -x ELSE x

Forward == last.op = "automatic_investment"

EffectiveHorizon == IF last.horizon = None THEN calc.horizon ELSE last.horizon[1]

EffectiveInvestment ==
    IF last.m_investment = None THEN calc.m_investment ELSE last.m_investment[1]

(* automatic_investment(m_investment=c) for the c that                     *)
(* back_to_present("amount", V) returned on this engine                    *)
AmountRoundTrip ==
    /\ Forward /\ solved.target = "amount" /\ solved.initial = None
    /\ last.m_investment = <<solved.value * Scale>>
    /\ last.horizon = None /\ last.monthly_rate = None

(* automatic_investment(horizon=h) for the h that                          *)
(* back_to_present("horizon", V) returned on this engine                   *)
HorizonRoundTrip ==
    /\ Forward /\ solved.target = "horizon" /\ solved.initial = None
    /\ last.horizon = <<solved.value>>
    /\ last.m_investment = None /\ last.monthly_rate = None

WholeUnits(x) == x % Scale = 0

(* C1 as stated: after c = back_to_present("amount", V), the run            *)
(* automatic_investment(m_investment=c) ends with final_balance >= V, for  *)
(* every valid parameter set and every V > 0.                              *)
C1_AmountRoundTripReachesTarget ==
    AmountRoundTrip => last.result.final_balance * Scale >= solved.value_target

(* C1 amended: the same, for a parameter set whose increment is not        *)
(* negative and a target V of whole currency units.                        *)
C1_AmountRoundTripWholeTarget ==
    (AmountRoundTrip /\ calc.increment >= 0 /\ WholeUnits(solved.value_target))
        => last.result.final_balance * Scale >= solved.value_target

C1_Witness ==
    /\ AmountRoundTrip /\ calc.increment >= 0 /\ WholeUnits(solved.value_target)
    /\ calc.monthly_return # 0 /\ solved.value >= 1
    /\ last.result.final_balance * Scale > solved.value_target

(* the target can be reached at all by waiting: something is contributed,  *)
(* or there is a balance that earns a return                               *)
HorizonExists ==
    calc.m_investment > 0 \/ (calc.init_balance > 0 /\ calc.monthly_return > 0)

C3_RateSolverReturns ==
    (/\ last.op = "back_to_present" /\ last.target = "rate"
     /\ last.initial = None
     /\ last.value_target > calc.init_balance + calc.m_investment * calc.horizon * 12)
        => (last.raised = "" /\ last.value # None)

(* C4 as stated: in every result of automatic_investment the rounded       *)
(* values satisfy Balance[i] = Principal[i] + Return[i] at every index,    *)
(* final_balance = total_principal + total_return, and entry 0 has         *)
(* Balance = Principal = initial balance and Return = 0.                   *)
C4_RoundedScheduleAddsUp ==
    Forward =>
      LET res == last.result
          d == res.monthly_data
      IN  /\ \A k \in 1..Len(d.Balance) : d.Balance[k] = d.Principal[k] + d.Return[k]
          /\ res.final_balance = res.total_principal + res.total_return
          /\ d.Balance[1] * Scale = calc.init_balance
          /\ d.Principal[1] * Scale = calc.init_balance
          /\ d.Return[1] = 0

(* C4 amended: the rounded values satisfy                                  *)
(* |Balance[i] - (Principal[i] + Return[i])| <= 1 at every index and       *)
(* |final_balance - (total_principal + total_return)| <= 1; entry 0 has    *)
(* Balance = Principal = the initial balance rounded to the nearest whole  *)
(* unit (half to even) and Return = 0.                                     *)
C4_RoundedScheduleWithinOne ==
    Forward =>
      LET res == last.result
          d == res.monthly_data
      IN  /\ \A k \in 1..Len(d.Balance) :
                Abs(d.Balance[k] - (d.Principal[k] + d.Return[k])) <= 1
          /\ Abs(res.final_balance - (res.total_principal + res.total_return)) <= 1
          /\ d.Balance[1] = Round(calc.init_balance)
          /\ d.Principal[1] = Round(calc.init_balance)
          /\ d.Return[1] = 0

C4_Witness ==
    /\ Forward
    /\ LET d == last.result.monthly_data
       IN  /\ Len(d.Balance) > 12
           /\ \E k \in 1..Len(d.Balance) :
                 /\ d.Return[k] > 0
                 /\ Abs(d.Balance[k] - (d.Principal[k] + d.Return[k])) = 1

(* the increment is never added in this run *)
NoIncrementApplied ==
    calc.increment = 0 \/ calc.increment_period = 0 \/ EffectiveHorizon <= 1

ZeroRateRun == Forward /\ calc.y_return = 0 /\ last.monthly_rate = None

(* C5 as stated: with annual return = 0, final_balance is exactly          *)
(* initial_balance + contribution * months, months = horizon * 12.         *)
C5_ZeroRateExact ==
    ZeroRateRun =>
        last.result.final_balance * Scale
            = calc.init_balance + EffectiveInvestment * EffectiveHorizon * 12

(* C5 amended: with annual return = 0 and an increment that is never       *)
(* applied (increment = 0, increment period = 0 or horizon = 1),           *)
(* final_balance is initial_balance + contribution * months rounded to the *)
(* nearest whole unit (half to even).                                      *)
C5_ZeroRateRounded ==
    (ZeroRateRun /\ NoIncrementApplied) =>
        last.result.final_balance
            = Round(calc.init_balance + EffectiveInvestment * EffectiveHorizon * 12)

C5_Witness ==
    /\ ZeroRateRun /\ NoIncrementApplied
    /\ EffectiveInvestment > 0 /\ EffectiveHorizon >= 2
    /\ last.result.final_balance > Round(calc.init_balance)

(* C9: constructing an InvestmentCalculator raises a validation error and  *)
(* yields no engine whenever annual return < 0, horizon <= 0, contribution *)
(* < 0, initial balance < 0, the method is not geometric or arithmetic,    *)
(* the increment is not a number or the increment period < 0; otherwise    *)
(* construction succeeds.                                                  *)
C9_ConstructionValidates ==
    last.op = "__init__" =>
      LET p == last.params
          invalid == \/ p.y_return < 0
                     \/ p.horizon <= 0
                     \/ p.m_investment < 0
                     \/ p.init_balance < 0
                     \/ ~(p.method = "geometric" \/ p.method = "arithmetic")
                     \/ ~p.increment.isnum
                     \/ p.incre_period < 0
      IN  IF invalid
          THEN last.raised = "ValueError" /\ calc = NoEngine
          ELSE /\ last.raised = "" /\ calc # NoEngine
               /\ calc.horizon = p.horizon /\ calc.y_return = p.y_return

C9_Witness ==
    /\ last.op = "__init__" /\ last.raised = "ValueError" /\ calc = NoEngine
    /\ last.params.horizon = 0 /\ last.params.y_return >= 0

(* C10: back_to_present raises a validation error for every target kind    *)
(* whenever the target value is <= 0, and returns no value.                *)
C10_NonPositiveTargetRejected ==
    (last.op = "back_to_present" /\ last.value_target <= 0)
        => (last.raised = "ValueError" /\ last.value = None /\ solved = NoSolve)

C10_Witness ==
    /\ last.op = "back_to_present" /\ last.value_target = 0
    /\ last.target = "horizon" /\ last.raised = "ValueError"

----------------------------------------------------------------------------
(* Properties of the withdrawal simulation (checked under WSpec) *)

InLoop == wd.op = "simulate_years" /\ wd.pc = "loop"

(* C6 as stated: the month loop of simulate_years reaches its stop         *)
(* condition balance - withdrawal <= 0 after finitely many months, for     *)
(* every initial_balance > 0 and monthly_withdrawal > 0 at any return.     *)
(* The loop's only state is the balance and a pass maps it to              *)
(* balance * (1 + rate) - withdrawal, which grows with the balance: the    *)
(* stop condition can come to hold only if every pass lowers the balance,  *)
(* and a pass that does not is followed by passes that do not either.      *)
C6_LoopReachesStop ==
    (InLoop /\ wd.balance - wd.monthly_withdrawal > 0)
        => wd.balance * (1 + sim.monthly_return_rate) - wd.monthly_withdrawal
               < wd.balance

(* C7 as stated: at monthly rate 0, simulate_monthly_withdrawal returns a  *)
(* complete result with monthly_withdrawal = initial / months, and         *)
(* simulate_initial_balance one with initial_balance = withdrawal * months;*)
(* in both the trace holds the balances after each withdrawal, falling     *)
(* from the initial balance to 0 over `months` entries, and a no-growth    *)
(* baseline is reported.                                                   *)
C7_ZeroRateResults ==
    (/\ wd.op \in {"simulate_monthly_withdrawal", "simulate_initial_balance"}
     /\ sim.monthly_return_rate = 0
     /\ wd.years > 0
     /\ IF wd.op = "simulate_monthly_withdrawal" THEN wd.initial_balance > 0
        ELSE wd.monthly_withdrawal > 0)
        =>
    (/\ wd.raised = ""
     /\ LET res == wd.result[1]
            months == wd.years * 12
            trace == res.monthly_balances
        IN  /\ "no_invest" \in DOMAIN res
            /\ res.initial_balance = res.monthly_withdrawal * months
            /\ Len(trace) = months
            /\ \A k \in 1..months :
                  trace[k] = res.initial_balance - k * res.monthly_withdrawal)

(* C8 as stated: for every initial balance > 0 and whole number of years   *)
(* Y > 0, w = simulate_monthly_withdrawal(initial, Y).monthly_withdrawal   *)
(* is returned, and simulate_years(initial, w) reports a duration          *)
(* (years * 12 + months) within one month of Y * 12.                       *)
C8_WithdrawalDurationSymmetry ==
    /\ (wd.op = "simulate_monthly_withdrawal" /\ wd.initial_balance > 0
        /\ wd.years > 0) => wd.raised = ""
    /\ (wd.op = "simulate_years" /\ wd.pc = "returned" /\ wd.from_years # None)
         => LET duration == wd.result[1].years[1] * 12 + wd.result[1].years[2]
            IN  Abs(duration - wd.from_years[1] * 12) <= 1

(* C11: each of simulate_years, simulate_monthly_withdrawal and            *)
(* simulate_initial_balance raises a validation error, with no result and  *)
(* no partial trace, whenever either of its two inputs (initial balance,   *)
(* withdrawal amount, years) is <= 0.                                      *)
C11_DecumulationValidates ==
    /\ (wd.op = "simulate_years"
        /\ (wd.initial_balance <= 0 \/ wd.monthly_withdrawal <= 0))
          => (/\ wd.pc = "raised" /\ wd.raised = "ValueError"
              /\ wd.result = None /\ wd.monthly_balances = <<>>)
    /\ (wd.op = "simulate_monthly_withdrawal"
        /\ (wd.initial_balance <= 0 \/ wd.years <= 0))
          => (wd.pc = "raised" /\ wd.raised = "ValueError" /\ wd.result = None)
    /\ (wd.op = "simulate_initial_balance"
        /\ (wd.monthly_withdrawal <= 0 \/ wd.years <= 0))
          => (wd.pc = "raised" /\ wd.raised = "ValueError" /\ wd.result = None)

C11_Witness ==
    /\ wd.op = "simulate_years" /\ wd.initial_balance > 0
    /\ wd.monthly_withdrawal = 0 /\ sim.monthly_return_rate > 0
    /\ wd.pc = "raised" /\ wd.raised = "ValueError"

----------------------------------------------------------------------------
(* Further properties of the calculator (checked under Spec) *)

(* C12 as stated: in every schedule automatic_investment returns for a     *)
(* valid parameter set with a non-negative increment,                      *)
(* principal[i+1] >= principal[i] for all i.                               *)
C12_PrincipalMonotone ==
    (Forward /\ calc.increment >= 0) =>
      LET principal == last.result.monthly_data.Principal
      IN  \A k \in 1..(Len(principal) - 1) : principal[k + 1] >= principal[k]

(* C17 as stated: the contribution back_to_present("amount", V) returns is *)
(* never negative, for every valid parameter set and every V > 0.          *)
C17_ContributionNotNegative ==
    (/\ last.op = "back_to_present" /\ last.target = "amount"
     /\ last.initial = None /\ last.value_target > 0)
        => (last.raised = "" /\ last.value[1] >= 0)

Min(a, b) == IF a < b THEN a ELSE b

(* the contribution C13 names for month i (0-based) of the latest run *)
ScheduledContribution(i) ==
    EffectiveInvestment + calc.increment * Min(i \div 12, calc.increment_period)

(* the initial balance and the scheduled contributions of months 0..n-1 *)
RECURSIVE ScheduledPrincipal(_)
ScheduledPrincipal(n) ==
    IF n = 0 THEN calc.init_balance
    ELSE ScheduledPrincipal(n - 1) + ScheduledContribution(n - 1)

C14_SolversReturnNumber ==
    (/\ last.op = "back_to_present" /\ last.target \in {"amount", "horizon"}
     /\ last.value_target > 0)
        => (last.raised = "" /\ last.value # None)

NoOverrides ==
    Forward /\ last.horizon = None /\ last.m_investment = None
    /\ last.monthly_rate = None

(* C15: no operation changes the engine.  After any sequence of            *)
(* automatic_investment calls (with or without overrides) and              *)
(* back_to_present calls the engine's fields are what construction set,    *)
(* and an automatic_investment() without overrides returns the same        *)
(* final_balance, total_principal and total_return as the first such call. *)
C15_EngineNotMutated ==
    /\ [][calc # NoEngine => calc' = calc]_vars
    /\ [](NoOverrides /\ first.set
            => /\ last.result.final_balance = first.final_balance
               /\ last.result.total_principal = first.total_principal
               /\ last.result.total_return = first.total_return)

C15_Witness ==
    /\ NoOverrides /\ first.set /\ first.later
    /\ calc.monthly_return > 0 /\ calc.m_investment > 0
    /\ last.result.final_balance = first.final_balance
    /\ last.result.final_balance > 0

----------------------------------------------------------------------------
(* Further properties of the withdrawal simulation (checked under WSpec) *)

(* C16 as stated: whenever simulate_years returns, for initial_balance > 0 *)
(* and monthly_withdrawal > 0 at an annual return >= 0, the reported       *)
(* duration in months (years * 12 + months, the number of entries of the   *)
(* balance trace) is at least the reported no-growth baseline in months    *)
(* (no_invest years * 12 + months, floor(initial / withdrawal)).           *)
C16_DurationAtLeastBaseline ==
    (wd.op = "simulate_years" /\ wd.pc = "returned") =>
      LET res == wd.result[1]
          duration == res.years[1] * 12 + res.years[2]
          baseline == res.no_invest[1] * 12 + res.no_invest[2]
      IN  /\ duration = Len(res.monthly_balances)
          /\ baseline = res.initial_balance \div res.monthly_withdrawal
          /\ duration >= baseline

====
